---- MODULE Spec2Model ----
(***************************************************************************)
(* Model of the identification-history resolution of                       *)
(* inat-curated-species-list (packages/tools helpers):                     *)
(*   getTaxonomy, getConfirmationDateAccountingForTaxonChanges,            *)
(*   getUniqueItems, parseDataFile and parseDataFiles.                     *)
(*                                                                         *)
(* Dates are ticks (naturals); new Date(s).getFullYear() and               *)
(* new Date(s).getTime() are computed from the tick, the unset string      *)
(* (undefined) and the resulting NaN are the negative sentinels below.     *)
(***************************************************************************)
EXTENDS Integers, Sequences, FiniteSets

VARIABLES
    pages,                          \* the packet-<i>.json files: a sequence of pages of observations
    file,                           \* parseDataFiles: loop variable i
    obsIdx,                         \* parseDataFile: position of forEach in content.results
    pc,                             \* where the program is
    newAdditions,                   \* parseDataFiles: newAdditions / processedData
    taxonsToRemove,                 \* parseDataFiles: taxonsToRemove
    taxonChangeData,                \* parseDataFiles: taxonChangeData (the change-event sink)
    taxonChangeDataGroupedByYear,   \* parseDataFiles: the returned ledger
    resolverIn,                     \* arguments of the latest resolver call
    resolverOut                     \* what that call returned

vars == <<pages, file, obsIdx, pc, newAdditions, taxonsToRemove, taxonChangeData,
          taxonChangeDataGroupedByYear, resolverIn, resolverOut>>

----------------------------------------------------------------------------
(* Bounds of the input families *)

MaxIdents == 3          \* resolver inputs: identifications per observation
ScanMaxIdents == 2      \* single-observation runs: identifications per observation
RunMaxIdents == 2       \* multi-observation runs: identifications per observation
RunMaxObs == 2          \* multi-observation runs: observations
PageSize == 1           \* multi-observation runs: observations per page file
MaxEvents == 3          \* ledger inputs: change events in the collector

(* Calendar of the tick model of created_at *)
TicksPerYear == 2
BaseYear == 2020
MsPerTick == 1000

----------------------------------------------------------------------------
(* JavaScript values *)

Undefined == -1                          \* an unset string variable
NaN == -2                                \* new Date(undefined).getTime()
NullChange == [id |-> 0, type |-> "null"]    \* taxon_change absent
NullTaxonomy == [null |-> "null"]        \* taxonomy: null
NullName == "null"                       \* speciesName: null
NoCall == [index |-> 0]                  \* no resolver call was made

\* new Date(created_at).getFullYear()
GetFullYear(created_at) ==
    IF created_at = Undefined THEN NaN ELSE BaseYear + (created_at \div TicksPerYear)

\* new Date(date).getTime()
GetTime(date) ==
    IF date = Undefined THEN NaN ELSE date * MsPerTick

\* the value of a JavaScript expression used as a condition, for the values of the model
Truthy(v) == v # NullChange

----------------------------------------------------------------------------
(* Taxa of the export *)

Genus == [id |-> 1, name |-> "Aus", rank |-> "genus"]
Family == [id |-> 2, name |-> "Aidae", rank |-> "family"]

TaxonG == [id |-> 1, name |-> "Aus", rank |-> "genus", ancestors |-> <<Family>>]
TaxonA == [id |-> 11, name |-> "Aus aus", rank |-> "species", ancestors |-> <<Family, Genus>>]
TaxonB == [id |-> 12, name |-> "Aus bus", rank |-> "species", ancestors |-> <<Family, Genus>>]
TaxonBs == [id |-> 13, name |-> "Aus bus cus", rank |-> "subspecies",
            ancestors |-> <<Family, Genus, [id |-> 12, name |-> "Aus bus", rank |-> "species"]>>]

Taxa == {TaxonG, TaxonA, TaxonB, TaxonBs}
SpeciesTaxa == {TaxonA, TaxonB, TaxonBs}

Curators == {"alice"}                    \* the curators argument
TaxonsToReturn == {"family", "genus"}    \* the taxon / taxonsToReturn argument

KnownTypes == {"TaxonSwap", "TaxonSplit", "TaxonMerge"}

----------------------------------------------------------------------------
(* getTaxonomy *)

RECURSIVE TaxonomyReduce(_, _, _, _)
TaxonomyReduce(ancestors, taxonsToReturn, k, acc) ==
    IF k > Len(ancestors) THEN acc
    ELSE LET curr == ancestors[k]
             acc2 == IF curr.rank \in taxonsToReturn
                     THEN [r \in (DOMAIN acc) \cup {curr.rank} |->
                              IF r = curr.rank THEN curr.name ELSE acc[r]]
                     ELSE acc
         IN TaxonomyReduce(ancestors, taxonsToReturn, k + 1, acc2)

getTaxonomy(ancestors, taxonsToReturn) ==
    TaxonomyReduce(ancestors, taxonsToReturn, 1, [r \in {} |-> ""])

----------------------------------------------------------------------------
(* getConfirmationDateAccountingForTaxonChanges *)

\* ['TaxonSwap', 'TaxonSplit', 'TaxonMerge'].indexOf(type) !== -1
IsKnownChangeType(type) == type \in KnownTypes

\* the row pushed to taxonChangeData for an earlier identification of the curator
ChangeRow(obsId, currIdentification, lastCuratorObservation) ==
    [id |-> obsId,
     previousSpeciesName |-> currIdentification.taxon.name,
     newSpeciesName |-> lastCuratorObservation.taxon.name,
     yearChanged |-> GetFullYear(lastCuratorObservation.created_at),
     taxonChangeId |-> lastCuratorObservation.taxon_change.id]

\* mutant: the pointer advances to every earlier identification of the curator
AlwaysAdvance(currIdentification, lastCuratorObservation) == currIdentification

\* lastCuratorObservation after the earlier identification currIdentification was visited
NextLastCuratorObservation(currIdentification, lastCuratorObservation) ==
    IF Truthy(currIdentification.taxon_change)
    THEN currIdentification
    ELSE lastCuratorObservation

\* the backward loop for (i = curatorIdentificationIndex; i >= 0; i--), indices from 1
RECURSIVE WalkBack(_, _, _, _, _, _)
WalkBack(obs, curatorIdentificationIndex, i, lastCuratorObservation, curatorObservations, sink) ==
    IF i < 1
    THEN [curatorObservations |-> curatorObservations, taxonChangeData |-> sink]
    ELSE LET currIdentification == obs.identifications[i]
             targetCurator == obs.identifications[curatorIdentificationIndex].user.login
             earlier == i # curatorIdentificationIndex
         IN IF currIdentification.user.login # targetCurator
            THEN WalkBack(obs, curatorIdentificationIndex, i - 1, lastCuratorObservation,
                          curatorObservations, sink)
            ELSE WalkBack(obs, curatorIdentificationIndex, i - 1,
                          IF earlier
                          THEN NextLastCuratorObservation(currIdentification, lastCuratorObservation)
                          ELSE lastCuratorObservation,
                          Append(curatorObservations,
                                 [taxonId |-> currIdentification.taxon_id,
                                  confirmationDate |-> currIdentification.created_at,
                                  isTaxonChange |-> Truthy(currIdentification.taxon_change)]),
                          IF earlier
                          THEN Append(sink, ChangeRow(obs.id, currIdentification, lastCuratorObservation))
                          ELSE sink)

\* mutant: the forward loop without the test i !== 0
RECURSIVE FindOriginalPushesFirst(_, _, _)
FindOriginalPushesFirst(curatorObservations, i, deprecatedTaxonIds) ==
    IF i > Len(curatorObservations)
    THEN [deprecatedTaxonIds |-> deprecatedTaxonIds, originalConfirmationDate |-> Undefined]
    ELSE LET dep == Append(deprecatedTaxonIds, curatorObservations[i].taxonId)
         IN IF ~curatorObservations[i].isTaxonChange
            THEN [deprecatedTaxonIds |-> dep,
                  originalConfirmationDate |-> curatorObservations[i].confirmationDate]
            ELSE FindOriginalPushesFirst(curatorObservations, i + 1, dep)

\* mutant: the forward loop falling back to the oldest entry's date when none is found
RECURSIVE FindOriginalFallsBack(_, _, _)
FindOriginalFallsBack(curatorObservations, i, deprecatedTaxonIds) ==
    IF i > Len(curatorObservations)
    THEN [deprecatedTaxonIds |-> deprecatedTaxonIds,
          originalConfirmationDate |->
              IF Len(curatorObservations) = 0 THEN Undefined
              ELSE curatorObservations[Len(curatorObservations)].confirmationDate]
    ELSE LET dep == IF i # 1
                    THEN Append(deprecatedTaxonIds, curatorObservations[i].taxonId)
                    ELSE deprecatedTaxonIds
         IN IF ~curatorObservations[i].isTaxonChange
            THEN [deprecatedTaxonIds |-> dep,
                  originalConfirmationDate |-> curatorObservations[i].confirmationDate]
            ELSE FindOriginalFallsBack(curatorObservations, i + 1, dep)

\* the forward loop over curatorObservations, indices from 1
RECURSIVE FindOriginal(_, _, _)
FindOriginal(curatorObservations, i, deprecatedTaxonIds) ==
    IF i > Len(curatorObservations)
    THEN [deprecatedTaxonIds |-> deprecatedTaxonIds, originalConfirmationDate |-> Undefined]
    ELSE LET dep == IF i # 1
                    THEN Append(deprecatedTaxonIds, curatorObservations[i].taxonId)
                    ELSE deprecatedTaxonIds
         IN IF ~curatorObservations[i].isTaxonChange
            THEN [deprecatedTaxonIds |-> dep,
                  originalConfirmationDate |-> curatorObservations[i].confirmationDate]
            ELSE FindOriginal(curatorObservations, i + 1, dep)

\* the whole function; exited is process.exit(1), taxonChangeData the sink after the call
getConfirmationDateAccountingForTaxonChanges(curatorIdentificationIndex, obs, sink) ==
    LET ident == obs.identifications[curatorIdentificationIndex]
    IN IF ~Truthy(ident.taxon_change)
       THEN [exited |-> FALSE, deprecatedTaxonIds |-> <<>>,
             originalConfirmationDate |-> ident.created_at, taxonChangeData |-> sink]
       ELSE IF ~IsKnownChangeType(ident.taxon_change.type)
       THEN [exited |-> TRUE, deprecatedTaxonIds |-> <<>>,
             originalConfirmationDate |-> Undefined, taxonChangeData |-> sink]
       ELSE LET walk == WalkBack(obs, curatorIdentificationIndex, curatorIdentificationIndex,
                                 ident, <<>>, sink)
                found == FindOriginal(walk.curatorObservations, 1, <<>>)
            IN [exited |-> FALSE, deprecatedTaxonIds |-> found.deprecatedTaxonIds,
                originalConfirmationDate |-> found.originalConfirmationDate,
                taxonChangeData |-> walk.taxonChangeData]

----------------------------------------------------------------------------
(* getUniqueItems *)

\* arr.filter((value, index, array) => array.indexOf(value) === index)
getUniqueItems(arr) ==
    LET keep == {i \in 1..Len(arr) : \A j \in 1..(i - 1) : arr[j] # arr[i]}
        RECURSIVE Filter(_)
        Filter(i) ==
            IF i > Len(arr) THEN <<>>
            ELSE IF i \in keep THEN <<arr[i]>> \o Filter(i + 1) ELSE Filter(i + 1)
    IN Filter(1)

----------------------------------------------------------------------------
(* parseDataFile: the callback of content.results.forEach *)

\* the three filters of the identification loop
Qualifies(ident, curators) ==
    /\ ident.current
    /\ ident.user.login \in curators
    /\ ~(ident.taxon.rank # "species" /\ ident.taxon.rank # "subspecies")

\* mutant: the identification loop without its break, the last match wins
RECURSIVE LastCuratorIdentification(_, _, _)
LastCuratorIdentification(obs, curators, i) ==
    IF i > Len(obs.identifications) THEN 0
    ELSE LET later == LastCuratorIdentification(obs, curators, i + 1)
         IN IF later # 0 THEN later
            ELSE IF Qualifies(obs.identifications[i], curators) THEN i ELSE 0

\* the identification loop: the index at which it reaches its break, 0 when it never does
RECURSIVE FirstCuratorIdentification(_, _, _)
FirstCuratorIdentification(obs, curators, i) ==
    IF i > Len(obs.identifications) THEN 0
    ELSE IF Qualifies(obs.identifications[i], curators) THEN i
    ELSE FirstCuratorIdentification(obs, curators, i + 1)

\* mutant: a subspecies kept under its own taxon
SpeciesOfOwnTaxon(ident) ==
    [curatorTaxonId |-> ident.taxon.id, speciesName |-> ident.taxon.name]

\* curatorTaxonId and speciesName of the identification
SpeciesOf(ident) ==
    IF ident.taxon.rank = "subspecies"
    THEN LET speciesAncestor == ident.taxon.ancestors[Len(ident.taxon.ancestors)]
         IN [curatorTaxonId |-> speciesAncestor.id, speciesName |-> speciesAncestor.name]
    ELSE [curatorTaxonId |-> ident.taxon.id, speciesName |-> ident.taxon.name]

\* delete processedData[taxonId]
DeleteKey(processedData, taxonId) ==
    [k \in (DOMAIN processedData) \ {taxonId} |-> processedData[k]]

\* mutant: the entry is created anew for every observation
EnsureEntryReset(processedData, curatorTaxonId) ==
    [k \in (DOMAIN processedData) \cup {curatorTaxonId} |->
        IF k = curatorTaxonId
        THEN [speciesName |-> NullName, observations |-> <<>>, taxonomy |-> NullTaxonomy]
        ELSE processedData[k]]

\* if (!processedData[curatorTaxonId]) processedData[curatorTaxonId] = {...}
EnsureEntry(processedData, curatorTaxonId) ==
    IF curatorTaxonId \in DOMAIN processedData
    THEN processedData
    ELSE [k \in (DOMAIN processedData) \cup {curatorTaxonId} |->
             IF k = curatorTaxonId
             THEN [speciesName |-> NullName, observations |-> <<>>, taxonomy |-> NullTaxonomy]
             ELSE processedData[k]]

\* the object pushed to processedData[curatorTaxonId].observations
ObservationRow(obs, ident, originalConfirmationDate) ==
    [observationId |-> obs.id,
     dateObserved |-> IF obs.observed_on_details.present
                      THEN obs.observed_on_details.date ELSE Undefined,
     observationCreatedAt |-> obs.created_at_details.date,
     confirmationDate |-> originalConfirmationDate,
     confirmationDateUnix |-> GetTime(originalConfirmationDate),
     curator |-> ident.user.login,
     observer |-> [username |-> obs.user.login, name |-> obs.user.name, id |-> obs.user.id]]

\* the statements after the resolver call, up to the break
RecordObservation(processedData, obs, ident, species, originalConfirmationDate, taxonsToReturn) ==
    LET old == processedData[species.curatorTaxonId]
        new == [speciesName |-> species.speciesName,
                observations |-> Append(old.observations,
                                        ObservationRow(obs, ident, originalConfirmationDate)),
                taxonomy |-> IF old.taxonomy = NullTaxonomy
                             THEN getTaxonomy(ident.taxon.ancestors, taxonsToReturn)
                             ELSE old.taxonomy]
    IN [processedData EXCEPT ![species.curatorTaxonId] = new]

\* if (curatorTaxonId && !processedData[curatorTaxonId].observations.length) delete
DeleteIfEmpty(processedData, curatorTaxonId) ==
    IF curatorTaxonId # 0 /\ Len(processedData[curatorTaxonId].observations) = 0
    THEN DeleteKey(processedData, curatorTaxonId)
    ELSE processedData

\* one observation of the file: the accumulators after it, and the resolver call it made
ParseObs(obs, curators, taxonsToReturn, processedData, removeList, sink) ==
    LET i == FirstCuratorIdentification(obs, curators, 1)
    IN IF i = 0
       THEN [exited |-> FALSE, processedData |-> processedData, taxonsToRemove |-> removeList,
             taxonChangeData |-> sink, call |-> NoCall, out |-> NoCall]
       ELSE LET ident == obs.identifications[i]
                species == SpeciesOf(ident)
                ensured == EnsureEntry(processedData, species.curatorTaxonId)
                r == getConfirmationDateAccountingForTaxonChanges(i, obs, sink)
                call == [index |-> i, obs |-> obs]
                out == [exited |-> r.exited, deprecatedTaxonIds |-> r.deprecatedTaxonIds,
                        originalConfirmationDate |-> r.originalConfirmationDate]
            IN IF r.exited
               THEN [exited |-> TRUE, processedData |-> ensured, taxonsToRemove |-> removeList,
                     taxonChangeData |-> sink, call |-> call, out |-> out]
               ELSE [exited |-> FALSE,
                     processedData |->
                         DeleteIfEmpty(RecordObservation(ensured, obs, ident, species,
                                                         r.originalConfirmationDate, taxonsToReturn),
                                       species.curatorTaxonId),
                     taxonsToRemove |-> removeList \o r.deprecatedTaxonIds,
                     taxonChangeData |-> r.taxonChangeData, call |-> call, out |-> out]

----------------------------------------------------------------------------
(* parseDataFiles: after the loop over the files *)

\* mutant: only the first of the items is deleted
RemoveOnlyFirst(additions, items, k) ==
    IF k > Len(items) THEN additions ELSE DeleteKey(additions, items[k])

\* items.forEach((taxonId) => delete newAdditions[taxonId]), items from index k on
RECURSIVE RemoveTaxons(_, _, _)
RemoveTaxons(additions, items, k) ==
    IF k > Len(items) THEN additions
    ELSE RemoveTaxons(DeleteKey(additions, items[k]), items, k + 1)

\* mutant: a later row with the same year and previous name overwrites the entry
GroupRowLastWins(grouped, row) ==
    LET ofYear == IF row.yearChanged \in DOMAIN grouped
                  THEN grouped[row.yearChanged] ELSE [n \in {} |-> NullChange]
    IN [y \in (DOMAIN grouped) \cup {row.yearChanged} |->
           IF y = row.yearChanged
           THEN [n \in (DOMAIN ofYear) \cup {row.previousSpeciesName} |->
                    IF n = row.previousSpeciesName
                    THEN [newSpeciesName |-> row.newSpeciesName,
                          taxonChangeId |-> row.taxonChangeId]
                    ELSE ofYear[n]]
           ELSE grouped[y]]

\* the body of taxonChangeData.forEach((row) => ...)
GroupRow(grouped, row) ==
    LET withYear == IF row.yearChanged \in DOMAIN grouped
                    THEN grouped
                    ELSE [y \in (DOMAIN grouped) \cup {row.yearChanged} |->
                             IF y = row.yearChanged THEN [n \in {} |-> NullChange] ELSE grouped[y]]
        ofYear == withYear[row.yearChanged]
    IN IF row.previousSpeciesName \notin DOMAIN ofYear
       THEN [withYear EXCEPT ![row.yearChanged] =
                [n \in (DOMAIN ofYear) \cup {row.previousSpeciesName} |->
                    IF n = row.previousSpeciesName
                    THEN [newSpeciesName |-> row.newSpeciesName, taxonChangeId |-> row.taxonChangeId]
                    ELSE ofYear[n]]]
       ELSE withYear

RECURSIVE GroupRows(_, _, _)
GroupRows(rows, k, grouped) ==
    IF k > Len(rows) THEN grouped
    ELSE GroupRows(rows, k + 1, GroupRow(grouped, rows[k]))

EmptyObject == [k \in {} |-> 0]

GroupByYear(rows) == GroupRows(rows, 1, EmptyObject)

\* the loop over the files and their observations, from observation k on
RECURSIVE ParseAll(_, _, _)
ParseAll(observations, k, acc) ==
    IF k > Len(observations) \/ acc.exited THEN acc
    ELSE ParseAll(observations, k + 1,
                  ParseObs(observations[k], Curators, TaxonsToReturn,
                           acc.processedData, acc.taxonsToRemove, acc.taxonChangeData))

\* what parseDataFiles returns for the observations of its files, in their order
parseDataFiles(observations) ==
    LET acc == ParseAll(observations, 1,
                        [exited |-> FALSE, processedData |-> EmptyObject,
                         taxonsToRemove |-> <<>>, taxonChangeData |-> <<>>])
    IN [exited |-> acc.exited,
        newAdditions |-> RemoveTaxons(acc.processedData, getUniqueItems(acc.taxonsToRemove), 1),
        taxonChangeDataGroupedByYear |-> GroupByYear(acc.taxonChangeData)]

----------------------------------------------------------------------------
(* The inputs: export records built from shapes of identifications *)

NoShapeChange == "none"

\* identification i of observation obsId, first identification made after tick t0
Identification(obsId, i, t0, shape) ==
    [user |-> [login |-> shape.login],
     taxon |-> shape.taxon,
     taxon_id |-> shape.taxon.id,
     current |-> shape.current,
     created_at |-> t0 + i,
     taxon_change |-> IF shape.ctype = NoShapeChange
                      THEN NullChange
                      ELSE [id |-> 100 * obsId + i, type |-> shape.ctype]]

Observation(obsId, shapes) ==
    [id |-> obsId,
     identifications |-> [i \in 1..Len(shapes) |-> Identification(obsId, i, obsId - 1, shapes[i])],
     observed_on_details |-> [present |-> obsId % 2 = 1, date |-> obsId],
     created_at_details |-> [date |-> obsId],
     user |-> [login |-> "bob", name |-> "Bob", id |-> 7]]

\* resolver inputs: the curator's identifications with every kind of change record,
\* among identifications of another user
ResolverShapes ==
    [login : {"alice"}, taxon : {TaxonA, TaxonB}, current : {TRUE},
     ctype : {NoShapeChange} \cup KnownTypes \cup {"TaxonStage"}]
    \cup {[login |-> "bob", taxon |-> TaxonA, current |-> TRUE, ctype |-> NoShapeChange],
          [login |-> "bob", taxon |-> TaxonB, current |-> TRUE, ctype |-> "TaxonSwap"]}

\* single-observation runs: every combination of the scanner's filters on the curator's
\* identifications, among identifications of another user
ScanShapes ==
    [login : {"alice"}, taxon : SpeciesTaxa, current : BOOLEAN,
     ctype : {NoShapeChange, "TaxonSwap", "TaxonStage"}]
    \cup [login : {"alice"}, taxon : {TaxonG}, current : BOOLEAN, ctype : {NoShapeChange}]
    \cup {[login |-> "bob", taxon |-> TaxonA, current |-> TRUE, ctype |-> NoShapeChange],
          [login |-> "bob", taxon |-> TaxonB, current |-> FALSE, ctype |-> "TaxonSwap"]}

\* multi-observation runs: histories of one curator, the latest identification current
RunShapes ==
    {[login |-> "alice", taxon |-> TaxonA, ctype |-> NoShapeChange],
     [login |-> "alice", taxon |-> TaxonB, ctype |-> "TaxonSwap"]}

History(sh) ==
    [i \in 1..Len(sh) |->
        [login |-> sh[i].login, taxon |-> sh[i].taxon, ctype |-> sh[i].ctype,
         current |-> (i = Len(sh))]]

RunHistories(n) == UNION {[1..k -> RunShapes] : k \in 1..n}

\* the observations in pages of PageSize
Paginate(observations) ==
    LET n == Len(observations)
        numFiles == (n + PageSize - 1) \div PageSize
    IN [f \in 1..numFiles |->
           [k \in 1..(IF f * PageSize <= n THEN PageSize ELSE n - (f - 1) * PageSize) |->
               observations[(f - 1) * PageSize + k]]]

\* ledger inputs: the rows of a collector of change events
EventRows ==
    [id : {1}, previousSpeciesName : {"Aus aus", "Aus bus"},
     newSpeciesName : {"Aus bus", "Aus bus cus"},
     yearChanged : {BaseYear, BaseYear + 1}, taxonChangeId : {101, 102}]

----------------------------------------------------------------------------
(* parseDataFiles as a state machine *)

Init ==
    /\ \/ \E k \in 0..ScanMaxIdents : \E sh \in [1..k -> ScanShapes] :
              pages = << <<Observation(1, sh)>> >>
       \/ \E n \in 0..RunMaxObs : \E hs \in [1..n -> RunHistories(RunMaxIdents)] :
              pages = Paginate([k \in 1..n |-> Observation(k, History(hs[k]))])
    /\ file = 1
    /\ obsIdx = 1
    /\ pc = "parsing"
    /\ newAdditions = EmptyObject
    /\ taxonsToRemove = <<>>
    /\ taxonChangeData = <<>>
    /\ taxonChangeDataGroupedByYear = EmptyObject
    /\ resolverIn = NoCall
    /\ resolverOut = NoCall

\* one call of the forEach callback of parseDataFile
ParseObservation ==
    /\ pc = "parsing"
    /\ file <= Len(pages)
    /\ obsIdx <= Len(pages[file])
    /\ LET r == ParseObs(pages[file][obsIdx], Curators, TaxonsToReturn,
                         newAdditions, taxonsToRemove, taxonChangeData)
       IN /\ newAdditions' = r.processedData
          /\ taxonsToRemove' = r.taxonsToRemove
          /\ taxonChangeData' = r.taxonChangeData
          /\ resolverIn' = r.call
          /\ resolverOut' = r.out
          /\ pc' = IF r.exited THEN "exited" ELSE "parsing"
          /\ obsIdx' = IF r.exited THEN obsIdx ELSE obsIdx + 1
    /\ UNCHANGED <<pages, file, taxonChangeDataGroupedByYear>>

\* parseDataFile returns, the loop of parseDataFiles goes to the next file
NextFile ==
    /\ pc = "parsing"
    /\ file <= Len(pages)
    /\ obsIdx > Len(pages[file])
    /\ file' = file + 1
    /\ obsIdx' = 1
    /\ UNCHANGED <<pages, pc, newAdditions, taxonsToRemove, taxonChangeData,
                   taxonChangeDataGroupedByYear, resolverIn, resolverOut>>

\* after the last file: the removal of the replaced taxa, the ledger, the return
ReturnResult ==
    /\ pc = "parsing"
    /\ file > Len(pages)
    /\ newAdditions' = RemoveTaxons(newAdditions, getUniqueItems(taxonsToRemove), 1)
    /\ taxonChangeDataGroupedByYear' = GroupByYear(taxonChangeData)
    /\ pc' = "returned"
    /\ UNCHANGED <<pages, file, obsIdx, taxonsToRemove, taxonChangeData, resolverIn, resolverOut>>

Next == ParseObservation \/ NextFile \/ ReturnResult

Spec == Init /\ [][Next]_vars

----------------------------------------------------------------------------
(* The resolver alone, on every identification list and index *)

InitResolver ==
    /\ \E k \in 1..MaxIdents : \E sh \in [1..k -> ResolverShapes] : \E i \in 1..k :
           resolverIn = [index |-> i, obs |-> Observation(1, sh)]
    /\ resolverOut = NoCall
    /\ pc = "resolver"
    /\ pages = <<>>
    /\ file = 1
    /\ obsIdx = 1
    /\ newAdditions = EmptyObject
    /\ taxonsToRemove = <<>>
    /\ taxonChangeData = <<>>
    /\ taxonChangeDataGroupedByYear = EmptyObject

CallResolver ==
    /\ pc = "resolver"
    /\ LET r == getConfirmationDateAccountingForTaxonChanges(resolverIn.index, resolverIn.obs,
                                                             taxonChangeData)
       IN /\ resolverOut' = [exited |-> r.exited, deprecatedTaxonIds |-> r.deprecatedTaxonIds,
                           originalConfirmationDate |-> r.originalConfirmationDate]
          /\ taxonChangeData' = r.taxonChangeData
          /\ pc' = IF r.exited THEN "exited" ELSE "resolved"
    /\ UNCHANGED <<pages, file, obsIdx, newAdditions, taxonsToRemove,
                   taxonChangeDataGroupedByYear, resolverIn>>

NextResolver == CallResolver

SpecResolver == InitResolver /\ [][NextResolver]_vars

----------------------------------------------------------------------------
(* The ledger fold alone, on every collector *)

InitLedger ==
    /\ \E n \in 0..MaxEvents : taxonChangeData \in [1..n -> EventRows]
    /\ pc = "grouping"
    /\ pages = <<>>
    /\ file = 1
    /\ obsIdx = 1
    /\ newAdditions = EmptyObject
    /\ taxonsToRemove = <<>>
    /\ taxonChangeDataGroupedByYear = EmptyObject
    /\ resolverIn = NoCall
    /\ resolverOut = NoCall

CallGroupByYear ==
    /\ pc = "grouping"
    /\ taxonChangeDataGroupedByYear' = GroupByYear(taxonChangeData)
    /\ pc' = "grouped"
    /\ UNCHANGED <<pages, file, obsIdx, newAdditions, taxonsToRemove, taxonChangeData,
                   resolverIn, resolverOut>>

NextLedger == CallGroupByYear

SpecLedger == InitLedger /\ [][NextLedger]_vars

----------------------------------------------------------------------------
(* What the claims are stated with *)

Max(S) == CHOOSE x \in S : \A y \in S : y <= x
Min(S) == CHOOSE x \in S : \A y \in S : x <= y

\* the members of the set of indices S, from the largest to the smallest
Descending(S) ==
    [k \in 1..Cardinality(S) |-> CHOOSE j \in S : Cardinality({m \in S : m > j}) = k - 1]

HasChange(ident) == ident.taxon_change # NullChange

\* the identifications before index idx made by the login of the one at idx
EarlierOfCurator(ids, idx) ==
    {j \in 1..(idx - 1) : ids[j].user.login = ids[idx].user.login}

\* the newest of them that carries no taxon change, 0 when all of them carry one
FirstNonChange(ids, idx) ==
    LET plain == {j \in EarlierOfCurator(ids, idx) : ~HasChange(ids[j])}
    IN IF plain = {} THEN 0 ELSE Max(plain)

\* the earlier identifications that the deprecated ids are taken from, newest first
ChainBefore(ids, idx) ==
    Descending({j \in EarlierOfCurator(ids, idx) : j >= FirstNonChange(ids, idx)})

Resolved == pc = "resolved" /\ resolverOut # NoCall
CallIdents == resolverIn.obs.identifications
CallIdent == CallIdents[resolverIn.index]

----------------------------------------------------------------------------
(* C1: the resolver returns, for an identification without a taxon change, no deprecated
   ids and the identification's own created_at; for one with a recognized taxon change,
   the taxon ids of the earlier identifications of the same login, newest first, up to
   and including the first that carries no taxon change, and that identification's
   created_at. *)
C1_ResolverResult ==
    Resolved =>
        LET ids == CallIdents
            idx == resolverIn.index
            chain == ChainBefore(ids, idx)
            stop == FirstNonChange(ids, idx)
        IN IF ~HasChange(ids[idx])
           THEN /\ resolverOut.deprecatedTaxonIds = <<>>
                /\ resolverOut.originalConfirmationDate = ids[idx].created_at
           ELSE /\ resolverOut.deprecatedTaxonIds = [k \in 1..Len(chain) |-> ids[chain[k]].taxon_id]
                /\ stop # 0 => resolverOut.originalConfirmationDate = ids[stop].created_at

\* a chain of two: a change on an earlier identification, then the original one
C1_Witness ==
    /\ Resolved
    /\ HasChange(CallIdent)
    /\ Len(resolverOut.deprecatedTaxonIds) = 2
    /\ FirstNonChange(CallIdents, resolverIn.index) # 0
    /\ resolverOut.originalConfirmationDate # CallIdent.created_at

----------------------------------------------------------------------------
\* the identifications walked: the one at idx and the earlier ones of its login, newest first
Walked(ids, idx) == Descending(EarlierOfCurator(ids, idx) \cup {idx})

\* the nearest identification after j, of the same login and at or before idx, with a change
NearestChangeAfter(ids, idx, j) ==
    Min({m \in (EarlierOfCurator(ids, idx) \cup {idx}) : m > j /\ HasChange(ids[m])})

EventOfPair(obsId, earlier, later) ==
    [id |-> obsId,
     previousSpeciesName |-> earlier.taxon.name,
     newSpeciesName |-> later.taxon.name,
     yearChanged |-> GetFullYear(later.created_at),
     taxonChangeId |-> later.taxon_change.id]

(* C6 as stated: one event per consecutive pair (earlier, later) of the identifications
   walked and no other, its previous name that of the earlier identification, its new
   name, year and change id those of the later identification of the pair. *)
C6_EventPerAdjacentPair ==
    (Resolved /\ HasChange(CallIdent)) =>
        LET w == Walked(CallIdents, resolverIn.index)
        IN taxonChangeData =
             [k \in 1..(Len(w) - 1) |->
                 EventOfPair(resolverIn.obs.id, CallIdents[w[k + 1]], CallIdents[w[k]])]

(* C6 amended: one event per consecutive pair of the identifications walked and no other,
   its previous name that of the earlier identification, its new name, year and change id
   those of the nearest later identification of the curator that carries a taxon change
   (the later identification of the pair when that one carries a change). *)
C6_EventPerPairFromLastChange ==
    (Resolved /\ HasChange(CallIdent)) =>
        LET w == Walked(CallIdents, resolverIn.index)
        IN taxonChangeData =
             [k \in 1..(Len(w) - 1) |->
                 EventOfPair(resolverIn.obs.id, CallIdents[w[k + 1]],
                             CallIdents[NearestChangeAfter(CallIdents, resolverIn.index, w[k + 1])])]

\* a chain of two changes walked back to the original identification
C6_Witness ==
    /\ Resolved
    /\ HasChange(CallIdent)
    /\ Len(taxonChangeData) = 2
    /\ taxonChangeData[1].taxonChangeId # taxonChangeData[2].taxonChangeId
    /\ taxonChangeData[1].newSpeciesName # taxonChangeData[2].newSpeciesName

----------------------------------------------------------------------------
\* the rows of the collector with this year and previous name
RowsOfPair(rows, year, name) ==
    {k \in 1..Len(rows) : rows[k].yearChanged = year /\ rows[k].previousSpeciesName = name}

(* C7: the ledger holds an entry for exactly the (year, previous name) pairs of the rows
   collected, and the entry of a pair is the new name and change id of the first row
   with that pair. *)
C7_FirstRowWins ==
    pc = "grouped" =>
        LET rows == taxonChangeData
            ledger == taxonChangeDataGroupedByYear
        IN /\ DOMAIN ledger = {rows[k].yearChanged : k \in 1..Len(rows)}
           /\ \A y \in DOMAIN ledger :
                 /\ DOMAIN ledger[y] = {rows[k].previousSpeciesName :
                                           k \in {m \in 1..Len(rows) : rows[m].yearChanged = y}}
                 /\ \A n \in DOMAIN ledger[y] :
                       LET first == rows[Min(RowsOfPair(rows, y, n))]
                       IN ledger[y][n] = [newSpeciesName |-> first.newSpeciesName,
                                          taxonChangeId |-> first.taxonChangeId]

\* two rows with the same year and previous name and different new names
C7_Witness ==
    /\ pc = "grouped"
    /\ \E i, j \in 1..Len(taxonChangeData) :
          /\ i < j
          /\ taxonChangeData[i].yearChanged = taxonChangeData[j].yearChanged
          /\ taxonChangeData[i].previousSpeciesName = taxonChangeData[j].previousSpeciesName
          /\ taxonChangeData[i].newSpeciesName # taxonChangeData[j].newSpeciesName
          /\ taxonChangeData[i].taxonChangeId # taxonChangeData[j].taxonChangeId

----------------------------------------------------------------------------
(* The observation scanned last, in a run *)

\* the latest observation scanned had a qualifying identification and its scan returned
Scanned == pc = "parsing" /\ resolverIn # NoCall

\* the three filters of the scanner, as the claims state them
IsQualifying(ident) ==
    /\ ident.current
    /\ ident.user.login \in Curators
    /\ ident.taxon.rank \in {"species", "subspecies"}

QualifyingIndices(obs) ==
    {i \in 1..Len(obs.identifications) : IsQualifying(obs.identifications[i])}

LastAncestor(ident) == ident.taxon.ancestors[Len(ident.taxon.ancestors)]

\* the species id an identification's record is to be stored under
StoredId(ident) ==
    IF ident.taxon.rank = "subspecies" THEN LastAncestor(ident).id ELSE ident.taxon.id

\* where the aggregate holds records of observation obsId
RecordsOf(additions, obsId) ==
    {kn \in UNION {{<<k, n>> : n \in 1..Len(additions[k].observations)} : k \in DOMAIN additions} :
        additions[kn[1]].observations[kn[2]].observationId = obsId}

RECURSIVE Flatten(_, _)
Flatten(files, f) ==
    IF f > Len(files) THEN <<>> ELSE files[f] \o Flatten(files, f + 1)

AllObservations == Flatten(pages, 1)

Elements(seq) == {seq[k] : k \in 1..Len(seq)}

----------------------------------------------------------------------------
(* C2: no key of the returned aggregate is a taxon id that a resolver call of the run
   put into taxonsToRemove. *)
C2_NoDeprecatedKeyReturned ==
    pc = "returned" => (DOMAIN newAdditions) \cap Elements(taxonsToRemove) = {}

\* an id flagged by the first observation, an entry made under it by a later one
C2_Witness ==
    /\ pc = "returned"
    /\ Len(AllObservations) >= 2
    /\ \E i, j \in 1..Len(AllObservations) :
          /\ i < j
          /\ QualifyingIndices(AllObservations[i]) # {}
          /\ QualifyingIndices(AllObservations[j]) # {}
          /\ LET flagging == AllObservations[i]
                 storing == AllObservations[j]
                 key == StoredId(storing.identifications[Min(QualifyingIndices(storing))])
             IN /\ key \in Elements(taxonsToRemove)
                /\ key # StoredId(flagging.identifications[Min(QualifyingIndices(flagging))])
                /\ key \in {flagging.identifications[n].taxon_id :
                               n \in 1..Len(flagging.identifications)}
                /\ key \notin {storing.identifications[n].taxon_id :
                                  n \in 1..(Len(storing.identifications) - 1)}

----------------------------------------------------------------------------
(* C3: a run returns only if every taxon-change record the resolver read, on a
   qualifying identification or on an earlier identification of the same curator,
   has one of the types TaxonSwap, TaxonSplit, TaxonMerge. *)
C3_ReturnsOnlyIfAllChangesKnown ==
    pc = "returned" =>
        \A o \in Elements(AllObservations) :
            QualifyingIndices(o) # {} =>
                LET ids == o.identifications
                    m == Min(QualifyingIndices(o))
                IN HasChange(ids[m]) =>
                      \A j \in EarlierOfCurator(ids, m) \cup {m} :
                          HasChange(ids[j]) =>
                              ids[j].taxon_change.type \in {"TaxonSwap", "TaxonSplit", "TaxonMerge"}

----------------------------------------------------------------------------
(* C4: the record of an observation whose qualifying identification is a subspecies is
   stored under the id and name of the last ancestor of its taxon and not under the
   taxon's own id; no key of the aggregate is the id of a subspecies. *)
C4_SubspeciesFolded ==
    /\ \A k \in DOMAIN newAdditions : \A t \in Taxa : t.rank = "subspecies" => k # t.id
    /\ (Scanned /\ CallIdent.taxon.rank = "subspecies") =>
          LET anc == LastAncestor(CallIdent)
          IN /\ anc.id \in DOMAIN newAdditions
             /\ newAdditions[anc.id].speciesName = anc.name
             /\ RecordsOf(newAdditions, resolverIn.obs.id) =
                   {<<anc.id, Len(newAdditions[anc.id].observations)>>}

C4_Witness ==
    /\ Scanned
    /\ CallIdent.taxon.rank = "subspecies"
    /\ RecordsOf(newAdditions, resolverIn.obs.id) # {}

----------------------------------------------------------------------------
TotalRecords(additions) ==
    Cardinality(UNION {{<<k, n>> : n \in 1..Len(additions[k].observations)} : k \in DOMAIN additions})

RecordsUnder(additions, k) ==
    IF k \in DOMAIN additions THEN additions[k].observations ELSE <<>>

(* C5: a scan of one observation that returns appends one record when an identification
   is current, by a curator and of rank species or subspecies, none otherwise; the
   record comes from the first such identification, and the identifications after it
   add no record, deprecated id or change event: the scan does what the scan of the
   observation cut after that identification does. *)
C5_OneRecordFromEarliest ==
    [][(pc = "parsing" /\ file' = file /\ obsIdx' = obsIdx + 1) =>
        LET obs == pages[file][obsIdx]
            ids == obs.identifications
            Q == QualifyingIndices(obs)
        IN IF Q = {}
           THEN /\ newAdditions' = newAdditions
                /\ taxonsToRemove' = taxonsToRemove
                /\ taxonChangeData' = taxonChangeData
                /\ resolverIn' = NoCall
           ELSE LET m == Min(Q)
                    key == StoredId(ids[m])
                    cut == [obs EXCEPT !.identifications = SubSeq(ids, 1, m)]
                    r == ParseObs(cut, Curators, TaxonsToReturn,
                                  newAdditions, taxonsToRemove, taxonChangeData)
                IN /\ TotalRecords(newAdditions') = TotalRecords(newAdditions) + 1
                   /\ resolverIn' = [index |-> m, obs |-> obs]
                   /\ key \in DOMAIN newAdditions'
                   /\ Len(newAdditions'[key].observations) = Len(RecordsUnder(newAdditions, key)) + 1
                   /\ LET rec == newAdditions'[key].observations[Len(newAdditions'[key].observations)]
                      IN /\ rec.observationId = obs.id
                         /\ rec.curator = ids[m].user.login
                         /\ rec.confirmationDate = resolverOut'.originalConfirmationDate
                   /\ newAdditions' = r.processedData
                   /\ taxonsToRemove' = r.taxonsToRemove
                   /\ taxonChangeData' = r.taxonChangeData]_vars

\* two qualifying identifications, the later one with a chain of its own, and one record
C5_Witness ==
    /\ Scanned
    /\ \E i \in QualifyingIndices(resolverIn.obs) :
          i > resolverIn.index /\ HasChange(resolverIn.obs.identifications[i])
    /\ TotalRecords(newAdditions) = 1
    /\ taxonsToRemove = <<>>

----------------------------------------------------------------------------
Orders(n) == {p \in [1..n -> 1..n] : \A i, j \in 1..n : p[i] = p[j] => i = j}

\* the records of the aggregate as the claim compares them
RecordSet(additions, k) ==
    {[observationId |-> additions[k].observations[n].observationId,
      confirmationDate |-> additions[k].observations[n].confirmationDate,
      curator |-> additions[k].observations[n].curator] :
        n \in 1..Len(additions[k].observations)}

(* C8: for every order of the observations of a run that returned, parseDataFiles
   returns the same species keys and, under each key, the same set of records
   (observation id, confirmation date, curator). *)
C8_OrderIndependent ==
    pc = "returned" =>
        LET all == AllObservations
        IN \A p \in Orders(Len(all)) :
              LET other == parseDataFiles([k \in 1..Len(all) |-> all[p[k]]])
              IN /\ ~other.exited
                 /\ DOMAIN other.newAdditions = DOMAIN newAdditions
                 /\ \A k \in DOMAIN newAdditions :
                       RecordSet(other.newAdditions, k) = RecordSet(newAdditions, k)

\* two different observations stored under one key, a third id removed
C8_Witness ==
    /\ pc = "returned"
    /\ Len(AllObservations) = 2
    /\ AllObservations[1].identifications # AllObservations[2].identifications
    /\ taxonsToRemove # <<>>
    /\ \E k \in DOMAIN newAdditions : Len(newAdditions[k].observations) = 2

----------------------------------------------------------------------------
\* every identification of the curator up to the qualifying one carries a taxon change
ChainReachesStart ==
    /\ resolverIn # NoCall
    /\ HasChange(CallIdent)
    /\ CallIdent.taxon_change.type \in {"TaxonSwap", "TaxonSplit", "TaxonMerge"}
    /\ \A j \in EarlierOfCurator(CallIdents, resolverIn.index) : HasChange(CallIdents[j])

(* C9: when the qualifying identification carries a recognized taxon change and so does
   every earlier identification of its curator, the resolver does not abort, returns no
   confirmation date and the taxon ids of all those earlier identifications, and the
   scanner appends one record, with no confirmation date. *)
C9_ChainWithoutOriginal ==
    (pc # "returned" /\ ChainReachesStart) =>
        LET earlier == Descending(EarlierOfCurator(CallIdents, resolverIn.index))
            key == StoredId(CallIdent)
            at == RecordsOf(newAdditions, resolverIn.obs.id)
        IN /\ pc = "parsing"
           /\ ~resolverOut.exited
           /\ resolverOut.originalConfirmationDate = Undefined
           /\ resolverOut.deprecatedTaxonIds =
                 [k \in 1..Len(earlier) |-> CallIdents[earlier[k]].taxon_id]
           /\ at = {<<key, Len(RecordsUnder(newAdditions, key))>>}
           /\ \A kn \in at :
                 /\ newAdditions[kn[1]].observations[kn[2]].confirmationDate = Undefined
                 /\ newAdditions[kn[1]].observations[kn[2]].confirmationDateUnix = NaN

\* a chain of two changes and nothing before it
C9_Witness ==
    /\ Scanned
    /\ ChainReachesStart
    /\ Len(resolverOut.deprecatedTaxonIds) = 1
    /\ RecordsOf(newAdditions, resolverIn.obs.id) # {}

----------------------------------------------------------------------------
(* C10: the species id an observation's record is stored under is not among the
   deprecated ids the resolver returns for that observation, so that an observation
   processed alone stays in the returned aggregate. *)
C10_OwnKeyNeverDeprecated ==
    /\ Scanned => StoredId(CallIdent) \notin Elements(resolverOut.deprecatedTaxonIds)
    /\ (pc = "returned" /\ Len(AllObservations) = 1 /\ resolverIn # NoCall) =>
          StoredId(CallIdent) \in DOMAIN newAdditions

====
